---- MODULE Spec2Model ----
(***************************************************************************)
(* LearnMate front end: the session bootstrap of the application shell     *)
(* (App), its logout operation, the route guard of the protected views,    *)
(* and the navigation the Home and Features views perform.                 *)
(*                                                                         *)
(* One page load is one behaviour.  A promise callback (.then, .catch,     *)
(* .finally) and an event handler are one action each: JavaScript runs     *)
(* each of them to completion, and the callbacks of one chain run in       *)
(* separate microtasks.                                                    *)
(***************************************************************************)
EXTENDS Integers, Sequences, FiniteSets, TLC

\* ---------------------------------------------------------------- bounds
\* Pieces a URL fragment is assembled from, after its leading '#'.
MaxParts == 2
\* Entries of the session history of a page load: in Spec and ChatSpec, and
\* in DeepSpec.
MaxHistory == 3
MaxDeepHistory == 4
\* Logout requests outstanding at one time: in Spec and ChatSpec, and in
\* DeepSpec.
MaxLogouts == 1
MaxDeepLogouts == 2
\* Chat messages per conversation and chat requests in flight at one time:
\* in Spec and DeepSpec, and in ChatSpec.
MaxChat == 1
MaxLongChat == 2

\* ------------------------------------------------------------- strings
\* A string is a sequence of one-character strings.
Marker == <<"s","e","s","s","i","o","n","_","i","d","=">>
Amp == <<"&">>

\* s has m at position i (1-based).
MatchAt(s, i, m) ==
    /\ i >= 1
    /\ i + Len(m) - 1 <= Len(s)
    /\ \A k \in 1..Len(m) : s[i + k - 1] = m[k]

\* String.prototype.indexOf for a non-empty m: the first position, 0 if none.
IndexOf(s, m) ==
    IF \E i \in 1..Len(s) : MatchAt(s, i, m)
    THEN CHOOSE i \in 1..Len(s) :
            /\ MatchAt(s, i, m)
            /\ \A j \in 1..(i - 1) : ~MatchAt(s, j, m)
    ELSE 0

\* String.prototype.includes.
Includes(s, m) == IndexOf(s, m) # 0

\* String.prototype.split with a non-empty separator.
RECURSIVE Split(_, _)
Split(s, sep) ==
    LET i == IndexOf(s, sep)
    IN  IF i = 0
        THEN <<s>>
        ELSE <<SubSeq(s, 1, i - 1)>> \o Split(SubSeq(s, i + Len(sep), Len(s)), sep)

\* A test that wants the fragment to start with the marker: startsWith
\* in place of includes.
HasSessionIdAtStart(hash) == Len(hash) > 0 /\ MatchAt(hash, 2, Marker)

\* hash && hash.includes('session_id=')
HasSessionId(hash) == Len(hash) > 0 /\ Includes(hash, Marker)

\* hash.split('session_id=')[1].split('&')[0]   (JavaScript indexes from 0)
ExtractSessionId(hash) == Split(Split(hash, Marker)[2], Amp)[1]

\* ------------------------------------------------------------- inputs
Users == {"u1", "u2"}
Null == "null"

Paths == {"/", "/features", "/tutor", "/dashboard"}
Protected == {"/tutor", "/dashboard"}

Parts == {Marker, <<"a">>, Amp}

RECURSIVE Bodies(_)
Bodies(n) ==
    IF n = 0
    THEN {<< >>}
    ELSE LET shorter == Bodies(n - 1)
         IN  shorter \cup {b \o p : b \in shorter, p \in Parts}

\* window.location.hash is empty or starts with '#'.
Hashes == {<< >>} \cup {<<"#">> \o b : b \in Bodies(MaxParts) \ {<< >>}}

\* ------------------------------------------------------------- state
VARIABLES
    user,            \* App: useState(null)
    loading,         \* App: useState(true)
    processingAuth,  \* App: useState(false)
    pc,              \* position of the resolver's promise chain
    history,         \* session history: entries [path, hash]
    idx,             \* the current entry of history
    loadHash,        \* window.location.hash when the page was loaded
    sessionCalls,    \* POST /auth/session requests issued
    sessionBody,     \* session_id of the last POST /auth/session
    meCalls,         \* GET /auth/me requests issued
    response,        \* the answer to the resolver's request: status none, ok, fail
    logoutsPending,  \* POST /auth/logout requests not yet settled
    console,         \* messages written with console.error
    alive,           \* the document has not been left
    tutor,           \* AITutor's state: the useState cells and its requests
    dashboard,       \* Dashboard's state: the useState cells and its request
    home,            \* Home's state: mobileMenuOpen
    catalogue,       \* the topics the backend serves on GET /topics
    limits,          \* what the user does at most in this page load: entries
                     \* of the history, logout requests at one time, chat
                     \* messages per conversation (and requests in flight)
    orphans          \* POST /chat requests in flight whose AITutor is unmounted

vars == <<user, loading, processingAuth, pc, history, idx, loadHash,
          sessionCalls, sessionBody, meCalls, response, logoutsPending, console, alive,
          tutor, dashboard, home, catalogue, limits, orphans>>

Location == history[idx]
CurPath == Location.path
CurHash == Location.hash

\* ------------------------------------------------------------ rendering
\* A route table whose /dashboard route lacks the check of user.
RouteElementDashboardOpen(path, usr) ==
    CASE path = "/" -> "Home"
      [] path = "/features" -> "Features"
      [] path = "/tutor" -> IF usr # Null THEN "AITutor" ELSE "Navigate"
      [] path = "/dashboard" -> "Dashboard"

\* A route table whose /dashboard route renders the element of /tutor.
RouteElementDashboardAsTutor(path, usr) ==
    CASE path = "/" -> "Home"
      [] path = "/features" -> "Features"
      [] path = "/tutor" -> IF usr # Null THEN "AITutor" ELSE "Navigate"
      [] path = "/dashboard" -> IF usr # Null THEN "AITutor" ELSE "Navigate"

\* The route table: the element <Routes> renders for a path.
RouteElement(path, usr) ==
    CASE path = "/" -> "Home"
      [] path = "/features" -> "Features"
      [] path = "/tutor" -> IF usr # Null THEN "AITutor" ELSE "Navigate"
      [] path = "/dashboard" -> IF usr # Null THEN "Dashboard" ELSE "Navigate"

\* A loading gate that tests processingAuth alone.
ViewGateProcessingOnly ==
    IF processingAuth THEN "Loading" ELSE RouteElement(CurPath, user)

\* App's render: the loading gate, then the route table.
View ==
    IF loading \/ processingAuth THEN "Loading" ELSE RouteElement(CurPath, user)

\* The <Link> targets a view shows.
Links(view) ==
    CASE view = "Home" -> {"/", "/features"} \cup (IF user # Null THEN Protected ELSE {})
      [] view = "Features" -> {"/", "/features"} \cup (IF user # Null THEN Protected ELSE {})
      [] view = "AITutor" -> Paths
      [] view = "Dashboard" -> IF dashboard.loading THEN {} ELSE Paths
      [] OTHER -> {}

\* history.pushState: the entries after the current one are dropped.
Push(entry) ==
    /\ history' = Append(SubSeq(history, 1, idx), entry)
    /\ idx' = idx + 1

\* history.replaceState
Replace(entry) ==
    /\ history' = [history EXCEPT ![idx] = entry]
    /\ idx' = idx

\* Room for one more entry, counting the push every pending logout will make
\* (the bound of the model on the length of the session history).
CanPush == idx + logoutsPending + 1 <= limits.history

\* ------------------------------------------------------------ view state
Topics == {"t1", "t2"}
\* The id of the chat the backend opens for a topic.
ChatIdFor == [topic \in Topics |-> IF topic = "t1" THEN "c1" ELSE "c2"]
Inputs == {<< >>, <<" ">>, <<"a">>}

\* String.prototype.trim over the texts of Inputs.
Trim(s) ==
    IF \A i \in 1..Len(s) : s[i] = " "
    THEN << >>
    ELSE LET a == CHOOSE i \in 1..Len(s) :
                     s[i] # " " /\ \A j \in 1..(i - 1) : s[j] = " "
             b == CHOOSE i \in 1..Len(s) :
                     s[i] # " " /\ \A j \in (i + 1)..Len(s) : s[j] = " "
         IN  SubSeq(s, a, b)

\* AITutor's useState initial values; fetch is the position of GET /topics
\* ("idle" until the mount effect has run), chat the POST /chat requests of
\* this instance that are in flight,
\* errors is what this instance wrote with console.error, toasts what it
\* showed with toast.error.
TutorInit ==
    [topics |-> {}, selectedTopic |-> Null, messages |-> << >>,
     inputMessage |-> << >>, loading |-> FALSE, chatId |-> Null,
     fetch |-> "idle", chat |-> << >>, errors |-> {}, toasts |-> {}]

\* Dashboard's useState initial values; fetch is the position of
\* fetchDashboardData, progressRes and quizRes those of its two GET
\* requests, errors and toasts as in AITutor.
DashboardInit ==
    [progress |-> Null, quizResults |-> << >>, loading |-> TRUE,
     fetch |-> "idle", progressRes |-> "none", quizRes |-> "none",
     errors |-> {}, toasts |-> {}]

HomeInit == [mobileMenuOpen |-> FALSE]

\* A view that is not rendered after a step is unmounted and its state is
\* gone; a view that stays rendered keeps its state.  The chat requests of
\* an unmounted AITutor stay in flight.
ViewsFollow ==
    /\ tutor' = IF View' = "AITutor" THEN tutor ELSE TutorInit
    /\ orphans' = IF View' = "AITutor" THEN orphans ELSE orphans + Len(tutor.chat)
    /\ UNCHANGED <<catalogue, limits>>
    /\ dashboard' = IF View' = "Dashboard" THEN dashboard ELSE DashboardInit
    /\ home' = IF View' = "Home" THEN home ELSE HomeInit

\* ------------------------------------------------------------- Init
\* A page load: the fragment and the path of the URL, the backend's topics
\* and the limits of what the user does.
Load(hashes, paths, topics, limit) ==
    /\ user = Null
    /\ loading = TRUE
    /\ processingAuth = FALSE
    /\ pc = "mount"
    /\ loadHash \in hashes
    /\ \E p \in paths : history = <<[path |-> p, hash |-> loadHash]>>
    /\ idx = 1
    /\ sessionCalls = 0
    /\ sessionBody = << >>
    /\ meCalls = 0
    /\ response = [status |-> "none", data |-> Null]
    /\ logoutsPending = 0
    /\ console = {}
    /\ alive = TRUE
    /\ tutor = TutorInit
    /\ dashboard = DashboardInit
    /\ home = HomeInit
    /\ catalogue = topics
    /\ limits = limit
    /\ orphans = 0

Init ==
    Load(Hashes, Paths, {"t1"},
         [history |-> MaxHistory, logouts |-> MaxLogouts, chat |-> MaxChat])

\* Loads without a fragment or with '#session_id=a', by a user who goes
\* further in the history and clicks Logout again before the answer.
DeepInit ==
    Load({<< >>, <<"#">> \o Marker \o <<"a">>}, Paths, {"t1"},
         [history |-> MaxDeepHistory, logouts |-> MaxDeepLogouts, chat |-> MaxChat])

\* Loads of /tutor, without a fragment or with '#session_id=a', against a
\* backend that serves two topics.
ChatInit ==
    Load({<< >>, <<"#">> \o Marker \o <<"a">>}, {"/tutor"}, Topics,
         [history |-> MaxHistory, logouts |-> MaxLogouts, chat |-> MaxLongChat])

\* ------------------------------------------------------------- resolver
\* A mount effect that does not cut the token at '&'.
MountEffectKeepsTail ==
    /\ alive
    /\ pc = "mount"
    /\ IF HasSessionId(CurHash)
       THEN /\ processingAuth' = TRUE
            /\ sessionBody' = Split(CurHash, Marker)[2]
            /\ sessionCalls' = sessionCalls + 1
            /\ pc' = "session_wait"
            /\ UNCHANGED meCalls
       ELSE /\ meCalls' = meCalls + 1
            /\ pc' = "me_wait"
            /\ UNCHANGED <<processingAuth, sessionBody, sessionCalls>>
    /\ UNCHANGED <<user, loading, history, idx, loadHash, response, logoutsPending, console, alive>>
    /\ ViewsFollow

\* The mount effect: chooses the resolution path and issues its request.
MountEffect ==
    /\ alive
    /\ pc = "mount"
    /\ IF HasSessionId(CurHash)
       THEN /\ processingAuth' = TRUE
            /\ sessionBody' = ExtractSessionId(CurHash)
            /\ sessionCalls' = sessionCalls + 1
            /\ pc' = "session_wait"
            /\ UNCHANGED meCalls
       ELSE /\ meCalls' = meCalls + 1
            /\ pc' = "me_wait"
            /\ UNCHANGED <<processingAuth, sessionBody, sessionCalls>>
    /\ UNCHANGED <<user, loading, history, idx, loadHash, response, logoutsPending, console, alive>>
    /\ ViewsFollow

\* POST /auth/session answered with { user: u }: the .then callback up to
\* and including setUser(response.data.user).
SessionThen(u) ==
    /\ alive
    /\ pc = "session_wait"
    /\ response' = [status |-> "ok", data |-> u]
    /\ user' = response'.data
    /\ pc' = "session_strip"
    /\ UNCHANGED <<loading, processingAuth, history, idx, loadHash, sessionCalls,
                   sessionBody, meCalls, logoutsPending, console, alive>>
    /\ ViewsFollow

\* A clean-up of the URL that rewrites it to the landing path.
SessionStripToLanding ==
    /\ alive
    /\ pc = "session_strip"
    /\ Replace([path |-> "/", hash |-> << >>])
    /\ pc' = "session_finally"
    /\ UNCHANGED <<user, loading, processingAuth, loadHash, sessionCalls,
                   sessionBody, meCalls, response, logoutsPending, console, alive>>
    /\ ViewsFollow

\* A clean-up of the URL that navigates: a new history entry for the path.
SessionStripPushes ==
    /\ alive
    /\ pc = "session_strip"
    /\ Push([path |-> CurPath, hash |-> << >>])
    /\ pc' = "session_finally"
    /\ UNCHANGED <<user, loading, processingAuth, loadHash, sessionCalls,
                   sessionBody, meCalls, response, logoutsPending, console, alive>>
    /\ ViewsFollow

\* The rest of the .then callback:
\* window.history.replaceState(null, '', window.location.pathname).
SessionStrip ==
    /\ alive
    /\ pc = "session_strip"
    /\ Replace([path |-> CurPath, hash |-> << >>])
    /\ pc' = "session_finally"
    /\ UNCHANGED <<user, loading, processingAuth, loadHash, sessionCalls,
                   sessionBody, meCalls, response, logoutsPending, console, alive>>
    /\ ViewsFollow

\* A chain without .finally: a rejected request leaves the flags as set.
SessionCatchSkipsFinally ==
    /\ alive
    /\ pc = "session_wait"
    /\ console' = console \cup {"Session processing failed:"}
    /\ response' = [status |-> "fail", data |-> Null]
    /\ pc' = "done"
    /\ UNCHANGED <<user, loading, processingAuth, history, idx, loadHash,
                   sessionCalls, sessionBody, meCalls,
                   logoutsPending, alive>>
    /\ ViewsFollow

\* POST /auth/session rejected: the .catch callback.
SessionCatch ==
    /\ alive
    /\ pc = "session_wait"
    /\ console' = console \cup {"Session processing failed:"}
    /\ response' = [status |-> "fail", data |-> Null]
    /\ pc' = "session_finally"
    /\ UNCHANGED <<user, loading, processingAuth, history, idx, loadHash,
                   sessionCalls, sessionBody, meCalls,
                   logoutsPending, alive>>
    /\ ViewsFollow

\* A .finally callback that clears processingAuth and forgets loading.
SessionFinallyKeepsLoading ==
    /\ alive
    /\ pc = "session_finally"
    /\ processingAuth' = FALSE
    /\ loading' = loading
    /\ pc' = "done"
    /\ UNCHANGED <<user, history, idx, loadHash, sessionCalls, sessionBody,
                   meCalls, response, logoutsPending, console, alive>>
    /\ ViewsFollow

\* The .finally callback of the session chain.
SessionFinally ==
    /\ alive
    /\ pc = "session_finally"
    /\ processingAuth' = FALSE
    /\ loading' = FALSE
    /\ pc' = "done"
    /\ UNCHANGED <<user, history, idx, loadHash, sessionCalls, sessionBody,
                   meCalls, response, logoutsPending, console, alive>>
    /\ ViewsFollow

\* A .then callback that reads response.data.user, as the session branch
\* does: undefined for the body of GET /auth/me.
MeThenUnwrapsUser(u) ==
    /\ alive
    /\ pc = "me_wait"
    /\ response' = [status |-> "ok", data |-> u]
    /\ user' = Null
    /\ pc' = "me_finally"
    /\ UNCHANGED <<loading, processingAuth, history, idx, loadHash, sessionCalls,
                   sessionBody, meCalls, logoutsPending, console, alive>>
    /\ ViewsFollow

\* GET /auth/me answered with the user u: the .then callback.
MeThen(u) ==
    /\ alive
    /\ pc = "me_wait"
    /\ response' = [status |-> "ok", data |-> u]
    /\ user' = response'.data
    /\ pc' = "me_finally"
    /\ UNCHANGED <<loading, processingAuth, history, idx, loadHash, sessionCalls,
                   sessionBody, meCalls, logoutsPending, console, alive>>
    /\ ViewsFollow

\* A .catch callback that stores what the rejection carries.
MeCatchStoresError ==
    /\ alive
    /\ pc = "me_wait"
    /\ user' \in Users
    /\ response' = [status |-> "fail", data |-> Null]
    /\ pc' = "me_finally"
    /\ UNCHANGED <<loading, processingAuth, history, idx, loadHash, sessionCalls,
                   sessionBody, meCalls, logoutsPending, console, alive>>
    /\ ViewsFollow

\* GET /auth/me rejected: the .catch callback.
MeCatch ==
    /\ alive
    /\ pc = "me_wait"
    /\ user' = Null
    /\ response' = [status |-> "fail", data |-> Null]
    /\ pc' = "me_finally"
    /\ UNCHANGED <<loading, processingAuth, history, idx, loadHash, sessionCalls,
                   sessionBody, meCalls, logoutsPending, console, alive>>
    /\ ViewsFollow

\* setLoading(false) outside the chain: it also runs before the answer.
MeFinallyEarly ==
    /\ alive
    /\ pc \in {"me_wait", "me_finally"}
    /\ loading' = FALSE
    /\ pc' = IF pc = "me_finally" THEN "done" ELSE pc
    /\ UNCHANGED <<user, processingAuth, history, idx, loadHash, sessionCalls,
                   sessionBody, meCalls, response,
                   logoutsPending, console, alive>>
    /\ ViewsFollow

\* The .finally callback of the me chain.
MeFinally ==
    /\ alive
    /\ pc = "me_finally"
    /\ loading' = FALSE
    /\ pc' = "done"
    /\ UNCHANGED <<user, processingAuth, history, idx, loadHash, sessionCalls,
                   sessionBody, meCalls, response,
                   logoutsPending, console, alive>>
    /\ ViewsFollow

\* ------------------------------------------------------------- logout
\* A logout that shows the loading placeholder while its request runs.
LogoutClickShowsLoading ==
    /\ alive
    /\ View = "Home"
    /\ user # Null
    /\ logoutsPending < limits.logouts
    /\ CanPush
    /\ logoutsPending' = logoutsPending + 1
    /\ loading' = TRUE
    /\ UNCHANGED <<user, processingAuth, pc, history, idx, loadHash,
                   sessionCalls, sessionBody, meCalls, response, console, alive>>
    /\ ViewsFollow

\* A logout that clears the identity before its request is issued.
LogoutClickClearsFirst ==
    /\ alive
    /\ View = "Home"
    /\ user # Null
    /\ logoutsPending < limits.logouts
    /\ CanPush
    /\ logoutsPending' = logoutsPending + 1
    /\ user' = Null
    /\ UNCHANGED <<loading, processingAuth, pc, history, idx, loadHash,
                   sessionCalls, sessionBody, meCalls, response, console, alive>>
    /\ ViewsFollow

\* A Home view that shows its logout button without a user as well.
LogoutClickWithoutUser ==
    /\ alive
    /\ View = "Home"
    /\ logoutsPending < limits.logouts
    /\ CanPush
    /\ logoutsPending' = logoutsPending + 1
    /\ UNCHANGED <<user, loading, processingAuth, pc, history, idx, loadHash,
                   sessionCalls, sessionBody, meCalls, response, console, alive>>
    /\ ViewsFollow

\* Home.handleLogout up to the await: logout() issues POST /auth/logout.
LogoutClick ==
    /\ alive
    /\ View = "Home"
    /\ user # Null
    /\ logoutsPending < limits.logouts
    /\ CanPush
    /\ logoutsPending' = logoutsPending + 1
    /\ UNCHANGED <<user, loading, processingAuth, pc, history, idx, loadHash,
                   sessionCalls, sessionBody, meCalls, response, console, alive>>
    /\ ViewsFollow

\* POST /auth/logout fulfilled: the rest of logout()'s try block, then the
\* rest of Home.handleLogout.
LogoutFulfilled ==
    /\ alive
    /\ logoutsPending > 0
    /\ logoutsPending' = logoutsPending - 1
    /\ user' = Null
    /\ Push([path |-> "/", hash |-> << >>])
    /\ UNCHANGED <<loading, processingAuth, pc, loadHash, sessionCalls,
                   sessionBody, meCalls, response,
                   console, alive>>
    /\ ViewsFollow

\* A logout() that rethrows: Home.handleLogout ends at its await.
LogoutRejectedRethrows ==
    /\ alive
    /\ logoutsPending > 0
    /\ logoutsPending' = logoutsPending - 1
    /\ console' = console \cup {"Logout failed:"}
    /\ UNCHANGED <<user, loading, processingAuth, pc, history, idx, loadHash,
                   sessionCalls, sessionBody, meCalls, response, alive>>
    /\ ViewsFollow

\* POST /auth/logout rejected: logout()'s catch block, then the rest of
\* Home.handleLogout.
LogoutRejected ==
    /\ alive
    /\ logoutsPending > 0
    /\ logoutsPending' = logoutsPending - 1
    /\ console' = console \cup {"Logout failed:"}
    /\ Push([path |-> "/", hash |-> << >>])
    /\ UNCHANGED <<user, loading, processingAuth, pc, loadHash, sessionCalls,
                   sessionBody, meCalls, response, alive>>
    /\ ViewsFollow

\* ------------------------------------------------------------ navigation
\* A click on a <Link to=p> of the mounted view, or Home.handleGetStarted
\* with a user (navigate('/tutor')).  A <Link> to the current location
\* replaces the entry, any other click pushes one.
LinkClick(p) ==
    /\ alive
    /\ p \in Links(View)
    /\ IF Location = [path |-> p, hash |-> << >>]
       THEN Replace([path |-> p, hash |-> << >>])
       ELSE CanPush /\ Push([path |-> p, hash |-> << >>])
    /\ UNCHANGED <<user, loading, processingAuth, pc, loadHash, sessionCalls,
                   sessionBody, meCalls, response,
                   logoutsPending, console, alive>>
    /\ ViewsFollow

\* The browser's back and forward buttons within this page load.
Back ==
    /\ alive
    /\ idx > 1
    /\ idx' = idx - 1
    /\ UNCHANGED <<user, loading, processingAuth, pc, history, loadHash,
                   sessionCalls, sessionBody, meCalls, response, logoutsPending, console, alive>>
    /\ ViewsFollow

Forward ==
    /\ alive
    /\ idx < Len(history)
    /\ CanPush
    /\ idx' = idx + 1
    /\ UNCHANGED <<user, loading, processingAuth, pc, history, loadHash,
                   sessionCalls, sessionBody, meCalls, response, logoutsPending, console, alive>>
    /\ ViewsFollow

\* A <Navigate to="/" /> without replace: the redirect pushes an entry.
GuardRedirectPushes ==
    /\ alive
    /\ View = "Navigate"
    /\ CanPush
    /\ Push([path |-> "/", hash |-> << >>])
    /\ UNCHANGED <<user, loading, processingAuth, pc, loadHash, sessionCalls,
                   sessionBody, meCalls, response,
                   logoutsPending, console, alive>>
    /\ ViewsFollow

\* The effect of a rendered <Navigate to="/" replace />.
GuardRedirect ==
    /\ alive
    /\ View = "Navigate"
    /\ Replace([path |-> "/", hash |-> << >>])
    /\ UNCHANGED <<user, loading, processingAuth, pc, loadHash, sessionCalls,
                   sessionBody, meCalls, response,
                   logoutsPending, console, alive>>
    /\ ViewsFollow

\* window.location.href = ... : Home.handleGetStarted without a user, the
\* Features login button, the Features call-to-action.  The document is left.
LeavePage ==
    /\ alive
    /\ \/ View = "Home" /\ user = Null
       \/ View = "Features"
    /\ alive' = FALSE
    /\ UNCHANGED <<user, loading, processingAuth, pc, history, idx, loadHash,
                   sessionCalls, sessionBody, meCalls, response, logoutsPending, console>>
    /\ ViewsFollow

\* ------------------------------------------------------------- Home
\* The menu button of the mobile navigation.
ToggleMobileMenu ==
    /\ alive
    /\ View = "Home"
    /\ home' = [home EXCEPT !.mobileMenuOpen = ~@]
    /\ UNCHANGED <<user, loading, processingAuth, pc, history, idx, loadHash,
                   sessionCalls, sessionBody, meCalls, response, logoutsPending,
                   console, alive,
                   tutor, dashboard, catalogue, limits, orphans>>

\* ------------------------------------------------------------- AITutor
\* AITutor's mount effect: fetchTopics up to its await.
TutorMountEffect ==
    /\ alive
    /\ View = "AITutor"
    /\ tutor.fetch = "idle"
    /\ tutor' = [tutor EXCEPT !.fetch = "pending"]
    /\ UNCHANGED <<user, loading, processingAuth, pc, history, idx, loadHash,
                   sessionCalls, sessionBody, meCalls, response, logoutsPending,
                   console, alive,
                   dashboard, home, catalogue, limits, orphans>>

\* GET /topics fulfilled: setTopics(response.data.topics).
TopicsFetched ==
    /\ alive
    /\ View = "AITutor"
    /\ tutor.fetch = "pending"
    /\ tutor' = [tutor EXCEPT !.fetch = "done", !.topics = catalogue]
    /\ UNCHANGED <<user, loading, processingAuth, pc, history, idx, loadHash,
                   sessionCalls, sessionBody, meCalls, response, logoutsPending,
                   console, alive,
                   dashboard, home, catalogue, limits, orphans>>

\* GET /topics rejected: fetchTopics' catch block.
TopicsFailed ==
    /\ alive
    /\ View = "AITutor"
    /\ tutor.fetch = "pending"
    /\ tutor' = [tutor EXCEPT !.fetch = "done",
                              !.errors = @ \cup {"Failed to fetch topics:"}]
    /\ UNCHANGED <<user, loading, processingAuth, pc, history, idx, loadHash,
                   sessionCalls, sessionBody, meCalls, response, logoutsPending,
                   console, alive,
                   dashboard, home, catalogue, limits, orphans>>

\* The greeting handleTopicSelect puts into the conversation.
Greeting(topic) == [role |-> "assistant", content |-> <<"Hi", topic>>]

\* A click on a topic of the sidebar.
handleTopicSelect(topic) ==
    /\ alive
    /\ View = "AITutor"
    /\ topic \in tutor.topics
    /\ tutor' = [tutor EXCEPT !.selectedTopic = topic,
                              !.messages = <<Greeting(topic)>>,
                              !.chatId = Null]
    /\ UNCHANGED <<user, loading, processingAuth, pc, history, idx, loadHash,
                   sessionCalls, sessionBody, meCalls, response, logoutsPending,
                   console, alive,
                   dashboard, home, catalogue, limits, orphans>>

\* Typing into the chat input: shown once a topic is selected, disabled
\* while loading.
InputChange(text) ==
    /\ alive
    /\ View = "AITutor"
    /\ tutor.selectedTopic # Null
    /\ ~tutor.loading
    /\ text # tutor.inputMessage
    /\ tutor' = [tutor EXCEPT !.inputMessage = text]
    /\ UNCHANGED <<user, loading, processingAuth, pc, history, idx, loadHash,
                   sessionCalls, sessionBody, meCalls, response, logoutsPending,
                   console, alive,
                   dashboard, home, catalogue, limits, orphans>>

\* The messages of the user in a conversation.
UserMessages(msgs) == Cardinality({i \in DOMAIN msgs : msgs[i].role = "user"})

\* The body of POST /chat as handleSendMessage builds it.
ChatRequest ==
    [message |-> tutor.inputMessage,
     topic |-> tutor.selectedTopic,
     chat_id |-> tutor.chatId]

\* Enter in the chat input or a click on the send button (both disabled
\* while loading): handleSendMessage up to its await; it returns at once on
\* an input that trims to nothing.
handleSendMessage ==
    /\ alive
    /\ View = "AITutor"
    /\ tutor.selectedTopic # Null
    /\ ~tutor.loading
    /\ IF Trim(tutor.inputMessage) = << >>
       THEN UNCHANGED tutor
       ELSE /\ UserMessages(tutor.messages) < limits.chat
            /\ orphans + Len(tutor.chat) < limits.chat
            /\ tutor' = [tutor EXCEPT
                  !.messages = Append(@, [role |-> "user",
                                          content |-> tutor.inputMessage]),
                  !.inputMessage = << >>,
                  !.loading = TRUE,
                  !.chat = Append(@, ChatRequest)]
    /\ UNCHANGED <<user, loading, processingAuth, pc, history, idx, loadHash,
                   sessionCalls, sessionBody, meCalls, response, logoutsPending,
                   console, alive,
                   dashboard, home, catalogue, limits, orphans>>

\* The backend's answer to a chat request: the chat the request continues,
\* or the chat opened for its topic when it names none.
ChatIdOf(req) ==
    IF req.chat_id # Null THEN req.chat_id ELSE ChatIdFor[req.topic]

\* The assistant message built from the answer to req.
Reply(req) ==
    [role |-> "assistant", content |-> <<"Re", req.topic>> \o req.message]

\* A chat handler that signs the user out when POST /chat is rejected.
ChatRejectedSignsOut ==
    /\ alive
    /\ View = "AITutor"
    /\ tutor.chat # << >>
    /\ user' = Null
    /\ UNCHANGED <<loading, processingAuth, pc, history, idx, loadHash,
                   sessionCalls, sessionBody, meCalls, response, logoutsPending,
                   console, alive>>
    /\ ViewsFollow

\* POST /chat fulfilled: the rest of handleSendMessage's try block, then its
\* finally block.
ChatAnswered ==
    /\ alive
    /\ View = "AITutor"
    /\ tutor.chat # << >>
    /\ tutor' = [tutor EXCEPT !.chatId = ChatIdOf(Head(tutor.chat)),
                              !.messages = Append(@, Reply(Head(tutor.chat))),
                              !.loading = FALSE,
                              !.chat = Tail(@)]
    /\ UNCHANGED <<user, loading, processingAuth, pc, history, idx, loadHash,
                   sessionCalls, sessionBody, meCalls, response, logoutsPending,
                   console, alive,
                   dashboard, home, catalogue, limits, orphans>>

\* A catch block without the finally block after it.
ChatRejectedKeepsLoading ==
    /\ alive
    /\ View = "AITutor"
    /\ tutor.chat # << >>
    /\ tutor' = [tutor EXCEPT !.errors = @ \cup {"Chat error:"},
                              !.toasts = @ \cup {"Failed to send message. Please try again."},
                              !.chat = Tail(@)]
    /\ UNCHANGED <<user, loading, processingAuth, pc, history, idx, loadHash,
                   sessionCalls, sessionBody, meCalls, response, logoutsPending,
                   console, alive,
                   dashboard, home, catalogue, limits, orphans>>

\* A catch block that takes the unanswered message out of the conversation.
ChatRejectedDropsMessage ==
    /\ alive
    /\ View = "AITutor"
    /\ tutor.chat # << >>
    /\ tutor' = [tutor EXCEPT !.errors = @ \cup {"Chat error:"},
                              !.toasts = @ \cup {"Failed to send message. Please try again."},
                              !.messages = SubSeq(@, 1, Len(@) - 1),
                              !.loading = FALSE,
                              !.chat = Tail(@)]
    /\ UNCHANGED <<user, loading, processingAuth, pc, history, idx, loadHash,
                   sessionCalls, sessionBody, meCalls, response, logoutsPending,
                   console, alive,
                   dashboard, home, catalogue, limits, orphans>>

\* POST /chat rejected: handleSendMessage's catch block, then its finally
\* block.
ChatRejected ==
    /\ alive
    /\ View = "AITutor"
    /\ tutor.chat # << >>
    /\ tutor' = [tutor EXCEPT !.errors = @ \cup {"Chat error:"},
                              !.toasts = @ \cup {"Failed to send message. Please try again."},
                              !.loading = FALSE,
                              !.chat = Tail(@)]
    /\ UNCHANGED <<user, loading, processingAuth, pc, history, idx, loadHash,
                   sessionCalls, sessionBody, meCalls, response, logoutsPending,
                   console, alive,
                   dashboard, home, catalogue, limits, orphans>>

\* The answer to a POST /chat whose AITutor instance has been unmounted:
\* nothing cancels the request, and its state updates have no effect.
OrphanChatSettled ==
    /\ alive
    /\ orphans > 0
    /\ orphans' = orphans - 1
    /\ UNCHANGED <<user, loading, processingAuth, pc, history, idx, loadHash,
                   sessionCalls, sessionBody, meCalls, response, logoutsPending,
                   console, alive,
                   tutor, dashboard, home, catalogue, limits>>

\* ------------------------------------------------------------- Dashboard
\* Dashboard's mount effect: fetchDashboardData up to its await.
DashboardMountEffect ==
    /\ alive
    /\ View = "Dashboard"
    /\ dashboard.fetch = "idle"
    /\ dashboard' = [dashboard EXCEPT !.fetch = "pending",
                                      !.progressRes = "pending",
                                      !.quizRes = "pending"]
    /\ UNCHANGED <<user, loading, processingAuth, pc, history, idx, loadHash,
                   sessionCalls, sessionBody, meCalls, response, logoutsPending,
                   console, alive,
                   tutor, home, catalogue, limits, orphans>>

\* Promise.all fulfilled, both requests answered with data: the rest of the
\* try block, then finally.
DashboardFetched ==
    dashboard' = [dashboard EXCEPT !.fetch = "done",
                                   !.progressRes = "none",
                                   !.quizRes = "none",
                                   !.progress = "progress",
                                   !.quizResults = <<"result">>,
                                   !.loading = FALSE]

\* A failure handler that keeps what the request that succeeded returned.
DashboardFetchFailedKeepsPartial ==
    dashboard' = [dashboard EXCEPT
        !.fetch = "done",
        !.progressRes = "none",
        !.quizRes = "none",
        !.progress = IF dashboard.progressRes = "ok" THEN "progress" ELSE @,
        !.quizResults = IF dashboard.quizRes = "ok" THEN <<"result">> ELSE @,
        !.errors = @ \cup {"Failed to fetch dashboard data:"},
        !.toasts = @ \cup {"Failed to load dashboard data"},
        !.loading = FALSE]

\* Promise.all rejected by the first request answered with an error: the
\* catch block, then finally.  What the other request returns is dropped.
DashboardFetchFailed ==
    dashboard' = [dashboard EXCEPT !.fetch = "done",
                                   !.progressRes = "none",
                                   !.quizRes = "none",
                                   !.errors = @ \cup {"Failed to fetch dashboard data:"},
                                   !.toasts = @ \cup {"Failed to load dashboard data"},
                                   !.loading = FALSE]

\* GET /progress is answered, with data or with an error, while Promise.all
\* is undecided; the continuation of a decided Promise.all runs before any
\* other answer is delivered.
ProgressAnswered(ok) ==
    /\ alive
    /\ View = "Dashboard"
    /\ dashboard.fetch = "pending"
    /\ dashboard.progressRes = "pending"
    /\ IF ~ok
       THEN DashboardFetchFailed
       ELSE IF dashboard.quizRes = "ok"
            THEN DashboardFetched
            ELSE dashboard' = [dashboard EXCEPT !.progressRes = "ok"]
    /\ UNCHANGED <<user, loading, processingAuth, pc, history, idx, loadHash,
                   sessionCalls, sessionBody, meCalls, response, logoutsPending,
                   console, alive,
                   tutor, home, catalogue, limits, orphans>>

\* GET /quiz/results is answered, with data or with an error.
QuizAnswered(ok) ==
    /\ alive
    /\ View = "Dashboard"
    /\ dashboard.fetch = "pending"
    /\ dashboard.quizRes = "pending"
    /\ IF ~ok
       THEN DashboardFetchFailed
       ELSE IF dashboard.progressRes = "ok"
            THEN DashboardFetched
            ELSE dashboard' = [dashboard EXCEPT !.quizRes = "ok"]
    /\ UNCHANGED <<user, loading, processingAuth, pc, history, idx, loadHash,
                   sessionCalls, sessionBody, meCalls, response, logoutsPending,
                   console, alive,
                   tutor, home, catalogue, limits, orphans>>

\* ------------------------------------------------------------- Spec
Next ==
    \/ MountEffect
    \/ \E u \in Users : SessionThen(u)
    \/ SessionStrip
    \/ SessionCatch
    \/ SessionFinally
    \/ \E u \in Users : MeThen(u)
    \/ MeCatch
    \/ MeFinally
    \/ LogoutClick
    \/ LogoutFulfilled
    \/ LogoutRejected
    \/ \E p \in Paths : LinkClick(p)
    \/ Back
    \/ Forward
    \/ GuardRedirect
    \/ LeavePage
    \/ ToggleMobileMenu
    \/ TutorMountEffect
    \/ TopicsFetched
    \/ TopicsFailed
    \/ \E topic \in Topics : handleTopicSelect(topic)
    \/ \E text \in Inputs : InputChange(text)
    \/ handleSendMessage
    \/ ChatAnswered
    \/ ChatRejected
    \/ OrphanChatSettled
    \/ DashboardMountEffect
    \/ \E ok \in BOOLEAN : ProgressAnswered(ok)
    \/ \E ok \in BOOLEAN : QuizAnswered(ok)

Spec == Init /\ [][Next]_vars

\* The same program on loads of /tutor with a longer conversation.
ChatSpec == ChatInit /\ [][Next]_vars

\* The same program with a longer history and concurrent logout requests.
DeepSpec == DeepInit /\ [][Next]_vars

\* The resolver's request is answered, with a user or with an error.
ResolverAnswered ==
    \/ \E u \in Users : SessionThen(u)
    \/ SessionCatch
    \/ \E u \in Users : MeThen(u)
    \/ MeCatch

\* The mount effect and every callback of a settled promise run; the
\* resolver's request is assumed to be answered.
FairSpec ==
    /\ Spec
    /\ WF_vars(MountEffect)
    /\ WF_vars(ResolverAnswered)
    /\ WF_vars(SessionStrip)
    /\ WF_vars(SessionFinally)
    /\ WF_vars(MeFinally)

\* ------------------------------------------------------------ properties
\* Resolution Outcome: pending, or settled with or without an identity.
Pending == loading \/ processingAuth
Settled == ~Pending
Anonymous == Settled /\ user = Null
Authenticated == Settled /\ user # Null

\* The characters of h from position i on begin with session_id=.
MarkerAt(h, i) ==
    /\ i + Len(Marker) - 1 <= Len(h)
    /\ SubSeq(h, i, i + Len(Marker) - 1) = Marker

\* The fragment contains session_id= somewhere.
FragmentHasSessionId(h) == \E i \in 1..Len(h) : MarkerAt(h, i)

\* The fragment from the first character after its first session_id= on.
AfterFirstMarker(h) ==
    LET first == CHOOSE i \in 1..Len(h) :
                    MarkerAt(h, i) /\ \A j \in 1..(i - 1) : ~MarkerAt(h, j)
    IN  SubSeq(h, first + Len(Marker), Len(h))

IsPrefix(t, s) == Len(t) <= Len(s) /\ SubSeq(s, 1, Len(t)) = t

\* C1: every logout request that settles, fulfilled or rejected, leaves the
\* identity null.
C1_LogoutAlwaysClears ==
    [][logoutsPending' < logoutsPending => user' = Null]_vars

\* C2: while the outcome is pending (loading or processingAuth), the loading
\* placeholder is rendered, whatever the path and the identity, and the
\* guard's redirect cannot happen.
C2_PendingRendersLoading ==
    Pending => (View = "Loading" /\ ~ENABLED GuardRedirect)

\* A protected view is requested, the session request has been answered with
\* a user, and the pending flags are still set.
C2_Witness ==
    /\ Pending
    /\ CurPath \in Protected
    /\ pc \in {"session_finally", "me_finally"}
    /\ user # Null

\* C3: a load whose fragment contains session_id= shows no fragment once
\* resolution has settled, whether the session request succeeded or failed.
C3_FragmentGoneOnceSettled ==
    (FragmentHasSessionId(loadHash) /\ pc = "done") => CurHash = << >>

C5_MePathCalls ==
    /\ ~FragmentHasSessionId(loadHash) =>
          /\ sessionCalls = 0
          /\ meCalls = (IF pc = "mount" THEN 0 ELSE 1)
    /\ pc # "mount" =>
          ((sessionCalls = 1 /\ meCalls = 0) <=> FragmentHasSessionId(loadHash))

\* A load with a fragment that is not empty and holds no session_id=,
\* settled through GET /auth/me.
C5_Witness ==
    /\ Len(loadHash) > 0
    /\ ~FragmentHasSessionId(loadHash)
    /\ pc = "done"
    /\ meCalls = 1

\* C6: whenever resolution has settled with a null identity and the current
\* path is a protected one, the element rendered is the redirect, never the
\* protected view; the redirect is ready to run, and a step that replaces
\* the current history entry there leads to the landing view '/'.
C6_AnonymousIsRedirected ==
    /\ [](Anonymous /\ CurPath \in Protected =>
            /\ View = "Navigate"
            /\ ENABLED GuardRedirect)
    /\ [][(Anonymous /\ CurPath \in Protected /\ idx' = idx /\ history' # history)
            => (history'[idx'].path = "/" /\ Len(history') = Len(history))]_vars

\* A protected view requested again, by going back in the history, after the
\* identity was cleared in this page session.
C6_Witness ==
    /\ Anonymous
    /\ CurPath \in Protected
    /\ response.status = "ok"
    /\ idx < Len(history)

\* C7 as stated: the identity is null in every pending state.
C7_NullWhilePending ==
    Pending => user = Null

\* C7, amended: in a pending state the identity is non-null only after the
\* resolver's request was answered successfully, between the .then callback
\* that stores it and the .finally callback that clears the pending flags.
C7_NullUntilAnswered ==
    (Pending /\ user # Null) =>
        /\ pc \in {"session_strip", "session_finally", "me_finally"}
        /\ response.status = "ok"
        /\ user = response.data

\* GET /auth/me has been answered with a user and .finally has not run yet.
C7_Witness ==
    /\ pc = "me_finally"
    /\ loading
    /\ user \in Users

\* C8: when POST /auth/session fails, the failure is logged, the identity
\* stays null, the .finally callback is ready to run, and once it has run
\* the pending flags are cleared and the view rendered is a page or the
\* guard's redirect.
C8_SessionFailureSettlesAnonymous ==
    (sessionCalls = 1 /\ response.status = "fail") =>
        /\ user = Null
        /\ "Session processing failed:" \in console
        /\ pc \in {"session_finally", "done"}
        /\ pc = "session_finally" => ENABLED SessionFinally
        /\ pc = "done" =>
              /\ ~loading
              /\ ~processingAuth
              /\ View \in {"Home", "Features", "Navigate"}

\* The session request failed and resolution has settled.
C8_Witness ==
    /\ sessionCalls = 1
    /\ response.status = "fail"
    /\ pc = "done"
    /\ Anonymous

\* C9: on the path without session_id=, after a successful GET /auth/me the
\* identity is the one of the response, after a failed one it is null; once
\* .finally has run loading is false, and the identity is then still the
\* response's or null, and null after a failure.
C9_MeResolvesOutcome ==
    meCalls = 1 =>
        /\ pc = "me_finally" =>
              /\ response.status \in {"ok", "fail"}
              /\ response.status = "ok" => (user = response.data /\ user \in Users)
              /\ response.status = "fail" => user = Null
              /\ ENABLED MeFinally
        /\ pc = "done" =>
              /\ ~loading
              /\ user \in {response.data, Null}
              /\ response.status = "fail" => user = Null

\* GET /auth/me succeeded and resolution has settled with its identity.
C9_Witness ==
    /\ meCalls = 1
    /\ pc = "done"
    /\ response.status = "ok"
    /\ user = response.data
    /\ ~loading

\* C10: once resolution has settled with a null identity, no step of the
\* page session makes the identity non-null.
C10_AnonymousStaysAnonymous ==
    [][Anonymous => user' = Null]_vars

\* Anonymous after a logout, with navigation and a further logout answer
\* arriving afterwards.
C10_Witness ==
    /\ Anonymous
    /\ response.status = "ok"
    /\ "Logout failed:" \in console
    /\ Len(history) = limits.history

\* C11: the outcome starts pending; once settled it never is pending again,
\* and the only change of a settled outcome is from an identity to null, in
\* a step that settles a logout request.
C11_OutcomeSettlesOnce ==
    /\ Pending
    /\ [][Settled => Settled']_vars
    /\ [][(Settled /\ user' # user) =>
            /\ user # Null
            /\ user' = Null
            /\ logoutsPending' = logoutsPending - 1]_vars

\* Authenticated through the session path, then logged out.
C11_Witness ==
    /\ Anonymous
    /\ sessionCalls = 1
    /\ response.status = "ok"

\* The text of r before its first '&', all of r if it holds none.
UpToAmp(r) ==
    IF \E k \in 1..Len(r) : r[k] = "&"
    THEN SubSeq(r, 1, (CHOOSE k \in 1..Len(r) :
                          r[k] = "&" /\ \A j \in 1..(k - 1) : r[j] # "&") - 1)
    ELSE r

\* C12: for every fragment that contains session_id=, the token sent is the
\* text that starts right after session_id= and ends before the next '&' or
\* at the end of the fragment.
C12_TokenUpToAmpOrEnd ==
    (FragmentHasSessionId(loadHash) /\ pc # "mount") =>
        sessionBody = UpToAmp(AfterFirstMarker(loadHash))

\* C13: on a load of a protected path with a session_id fragment the path
\* does not change while resolution is pending, and once the session request
\* has been answered with a user the application reaches a state where the
\* identity is that user, the fragment is gone and the protected view of
\* the requested path is rendered.
C13_SessionLoadRendersProtectedView ==
    /\ [][(Pending /\ sessionCalls = 1) => CurPath' = CurPath]_vars
    /\ (pc = "session_strip" /\ CurPath \in Protected)
          ~> (/\ Authenticated
              /\ pc = "done"
              /\ Len(history) = 1
              /\ user = response.data
              /\ CurPath \in Protected
              /\ CurHash = << >>
              /\ View = (IF CurPath = "/tutor" THEN "AITutor" ELSE "Dashboard"))

\* /tutor loaded with a session_id fragment, answered with a user, settled.
C13_Witness ==
    /\ sessionCalls = 1
    /\ pc = "done"
    /\ Len(history) = 1
    /\ CurPath = "/tutor"
    /\ CurHash = << >>
    /\ user = response.data
    /\ View = "AITutor"

\* C14: whenever resolution has settled with an identity and the current
\* path is a protected one, the view of that path is rendered and the
\* guard's redirect cannot happen.
C14_AuthenticatedRendersProtected ==
    (Authenticated /\ CurPath \in Protected) =>
        /\ View = (IF CurPath = "/tutor" THEN "AITutor" ELSE "Dashboard")
        /\ ~ENABLED GuardRedirect

\* The dashboard, rendered while a logout request is still in flight.
C14_Witness ==
    /\ Authenticated
    /\ CurPath = "/dashboard"
    /\ logoutsPending > 0

\* The step of the guard's redirect: the history changes under a rendered
\* <Navigate>, and no logout request settles.
RedirectStep ==
    /\ View = "Navigate"
    /\ history' # history
    /\ logoutsPending' = logoutsPending

\* C15 as stated: after the redirect the protected path is nowhere in the
\* history stack.
C15_ProtectedPathLeavesStack ==
    [][RedirectStep => \A i \in 1..Len(history') : history'[i].path # CurPath]_vars

\* C15, amended: the redirect replaces the current entry by '/': the stack
\* keeps its length and its position, every other entry is untouched, so
\* the entry redirected from is no protected one any more; other entries
\* may still hold the protected path.
C15_RedirectReplacesEntry ==
    [][RedirectStep =>
         /\ Len(history') = Len(history)
         /\ idx' = idx
         /\ history'[idx] = [path |-> "/", hash |-> << >>]
         /\ \A i \in 1..Len(history) : i # idx => history'[i] = history[i]]_vars

\* After a redirect in the middle of the stack: the entry is '/', its
\* neighbours are kept, and an earlier entry still holds a protected path.
C15_Witness ==
    /\ Anonymous
    /\ Len(history) = 4
    /\ idx = 3
    /\ history[1].path \in Protected
    /\ history[3].path = "/"
    /\ history[2].path = "/"
    /\ history[4].path = "/"
    /\ response.status = "ok"

C17_LoadSettles ==
    \A b \in BOOLEAN :
        (pc = "mount" /\ FragmentHasSessionId(loadHash) = b)
           ~> (/\ pc = "done"
               /\ ~loading
               /\ ~processingAuth
               /\ View # "Loading"
               /\ (sessionCalls = 1) = b
               /\ (meCalls = 1) = ~b)

\* A load settled through a failed session request.
C17_Witness ==
    /\ pc = "done"
    /\ Settled
    /\ sessionCalls = 1
    /\ response.status = "fail"
    /\ View # "Loading"

\* C18: the identity and the resolution outcome are written only by the
\* session resolver (a step that moves pc) and by the logout operation (a
\* step that settles a logout request); navigation and every handler of
\* Home, Features, AITutor and Dashboard other than logout leave them as
\* they are.
C18_IdentityHasOneWriter ==
    /\ [][(user' # user \/ loading' # loading \/ processingAuth' # processingAuth)
            => (pc' # pc \/ logoutsPending' = logoutsPending - 1)]_vars
    /\ [][(/\ pc' = pc
           /\ logoutsPending' >= logoutsPending
           /\ \/ tutor' # tutor
              \/ dashboard' # dashboard
              \/ home' # home
              \/ history' # history
              \/ idx' # idx
              \/ alive' # alive)
            => (user' = user /\ Pending' = Pending)]_vars

\* After navigation and a whole chat exchange in AITutor the identity is
\* still the one the resolver stored.
C18_Witness ==
    /\ View = "AITutor"
    /\ Len(history) > 1
    /\ Len(tutor.messages) = 3
    /\ tutor.messages[3].role = "assistant"
    /\ tutor.chatId # Null
    /\ user = response.data
    /\ user # Null

\* C19 as stated: while a logout request is in flight the state is
\* AUTHENTICATED.
C19_AuthenticatedWhileInFlight ==
    logoutsPending > 0 => Authenticated

\* C19, amended: issuing a logout request leaves the identity as it is, and
\* the identity is cleared only in a step that settles a logout request;
\* until then protected views render.  With two requests in flight the
\* first to be fulfilled clears the identity while the other is in flight.
C19_RequestThenClear ==
    /\ [][logoutsPending' > logoutsPending => (user # Null /\ user' = user)]_vars
    /\ [][(Settled /\ user' # user) => logoutsPending' = logoutsPending - 1]_vars
    /\ []((logoutsPending > 0 /\ user # Null /\ CurPath \in Protected)
            => View \in {"AITutor", "Dashboard"})

\* Two logout requests in flight, the identity kept, a protected view shown.
C19_Witness ==
    /\ logoutsPending = 2
    /\ user # Null
    /\ View = "AITutor"

\* C20: a logout request is issued only from the Home view of a settled,
\* authenticated application; none is outstanding while the resolver has
\* not finished.
C20_LogoutOnlyWhenAuthenticated ==
    /\ [](logoutsPending > 0 => pc = "done")
    /\ [][logoutsPending' > logoutsPending =>
            /\ Authenticated
            /\ pc = "done"
            /\ View = "Home"]_vars

\* A logout request in flight after the session path has settled.
C20_Witness ==
    /\ logoutsPending > 0
    /\ sessionCalls = 1
    /\ pc = "done"

\* C21: the conversation of the selected topic holds only that topic's
\* greeting and replies to messages sent under that topic, and chatId is
\* null or the id of the chat of that topic, whatever the order of topic
\* selections and chat answers.
C21_ConversationOfSelectedTopic ==
    tutor.selectedTopic # Null =>
        /\ \A i \in DOMAIN tutor.messages :
              tutor.messages[i].role = "assistant"
                 => tutor.messages[i].content[2] = tutor.selectedTopic
        /\ tutor.chatId \in {Null, ChatIdFor[tutor.selectedTopic]}

\* The POST /chat requests in flight, of the mounted AITutor and of
\* unmounted ones.
Outstanding == Len(tutor.chat) + orphans

\* C22 as stated: loading is true exactly while a POST /chat request is
\* outstanding, and at most one is outstanding at any time.
C22_LoadingIffOutstanding ==
    /\ tutor.loading <=> Outstanding > 0
    /\ Outstanding <= 1

\* C22, amended: loading is true exactly while a request of the mounted
\* AITutor is in flight, a message is sent only while loading is false, and
\* the mounted AITutor has at most one request in flight.  Requests of an
\* AITutor that was unmounted stay outstanding beside it.
C22_LoadingIffOwnRequest ==
    /\ [](tutor.loading <=> Len(tutor.chat) > 0)
    /\ [](Len(tutor.chat) <= 1)
    /\ [][Len(tutor'.chat) > Len(tutor.chat) => ~tutor.loading]_vars

\* A request of the mounted AITutor in flight beside one of an earlier,
\* unmounted AITutor.
C22_Witness ==
    /\ View = "AITutor"
    /\ tutor.loading
    /\ Len(tutor.chat) = 1
    /\ orphans = 1

\* The step of handleSendMessage's catch and finally blocks: the request of
\* the mounted AITutor ends without its reply being appended.
ChatFailureStep ==
    /\ tutor.chat # << >>
    /\ tutor'.chat = << >>
    /\ View' = "AITutor"
    /\ tutor'.messages # Append(tutor.messages, Reply(Head(tutor.chat)))

\* C23: when POST /chat fails the message list stays as it is (the user's
\* message included, no assistant message added), chatId, the topic and the
\* input stay, the error is logged and loading becomes false.
C23_ChatFailureKeepsConversation ==
    [][ChatFailureStep =>
         /\ tutor'.messages = tutor.messages
         /\ tutor'.chatId = tutor.chatId
         /\ tutor'.selectedTopic = tutor.selectedTopic
         /\ tutor'.inputMessage = tutor.inputMessage
         /\ "Chat error:" \in tutor'.errors
         /\ ~tutor'.loading]_vars

\* After a failed request the user's message is still the second of the
\* conversation and a further message has been sent.
C23_Witness ==
    /\ "Chat error:" \in tutor.errors
    /\ Len(tutor.messages) = 3
    /\ tutor.messages[2].role = "user"
    /\ tutor.messages[3].role = "user"
    /\ tutor.chatId = Null
    /\ Len(tutor.chat) = 1

\* C24: every step that settles a logout request, fulfilled or rejected,
\* navigates to '/': a new history entry for '/' becomes the current one
\* and Home is rendered.
C24_LogoutThenLanding ==
    [][logoutsPending' < logoutsPending =>
         /\ idx' = idx + 1
         /\ Len(history') = idx'
         /\ CurPath' = "/"
         /\ CurHash' = << >>
         /\ View' = "Home"]_vars

\* A rejected logout request has taken the user, still signed in, from
\* /tutor to '/'.
C24_Witness ==
    /\ "Logout failed:" \in console
    /\ logoutsPending = 0
    /\ user # Null
    /\ idx = 3
    /\ history[2].path = "/tutor"
    /\ CurPath = "/"

\* C25: progress and quizResults are set only together, in the step in
\* which the second of the two requests is answered with data; a failure of
\* either leaves both at their initial values; the step that decides
\* Promise.all, either way, sets loading to false.
C25_DashboardAllOrNothing ==
    /\ []((dashboard.progress # Null \/ dashboard.quizResults # << >>)
            => /\ dashboard.progress = "progress"
               /\ dashboard.quizResults = <<"result">>
               /\ dashboard.errors = {}
               /\ dashboard.fetch = "done")
    /\ [](dashboard.errors # {}
            => dashboard.progress = Null /\ dashboard.quizResults = << >>)
    /\ [](dashboard.loading <=> dashboard.fetch # "done")
    /\ [][(dashboard.fetch = "pending" /\ dashboard'.fetch = "done") =>
            /\ ~dashboard'.loading
            /\ (dashboard'.progress # Null)
                  <=> ({dashboard.progressRes, dashboard.quizRes} = {"ok", "pending"}
                       /\ dashboard'.errors = {})]_vars

\* A dashboard whose loading has failed: the spinner is gone and both
\* values are the initial ones.
C25_Witness ==
    /\ View = "Dashboard"
    /\ dashboard.fetch = "done"
    /\ dashboard.errors # {}
    /\ ~dashboard.loading
    /\ dashboard.progress = Null
    /\ dashboard.quizResults = << >>

\* C26: the first message sent after a topic selection carries chat_id
\* null, and every message carries null or the id of the chat of the topic
\* it is sent under.
C26_ChatContinuity ==
    [][Len(tutor'.chat) > Len(tutor.chat) =>
         LET req == tutor'.chat[Len(tutor'.chat)]
         IN  /\ UserMessages(tutor.messages) = 0 => req.chat_id = Null
             /\ req.chat_id \in {Null, ChatIdFor[req.topic]}]_vars

====
